---- MODULE Spec2Model ----
(***************************************************************************)
(* News-Briefing-Agent: the aggregation-and-ranking pipeline of            *)
(* app/coordinator.py (generate_briefing), with app/utils.py               *)
(* (fingerprint_article), app/memory/memory_bank.py (the memory.json       *)
(* document), app/categorizer_agent.py and app/summarizer_agent.py (the    *)
(* two enrichment collaborators) and app/tools/rss_fetcher.py (the fetch   *)
(* collaborator and the supported-category list).                          *)
(*                                                                         *)
(* Strings the code manipulates character by character (titles, urls, the  *)
(* requested category strings) are sequences of one-character strings.     *)
(* Category labels, once resolved, are TLA+ strings. Confidences are in    *)
(* hundredths (0.65 is 65).                                                *)
(***************************************************************************)
EXTENDS Integers, Sequences, FiniteSets, TLC

VARIABLES
    store,        \* memory.json: <<>> when the file does not exist, else <<document>>
    USE_MOCK,     \* categorizer_agent.USE_MOCK, read from the environment at import
    pc,           \* position of the generate_briefing call
    error,        \* the exception that left generate_briefing, or NoError
    top_n,        \* argument top_n
    categories,   \* argument categories: <<>> for None, else <<the list of raw strings>>
    mem,          \* local mem: <<the document load_memory returned>>, <<>> before the load
    cats,         \* local cats: the normalised labels; <<>> stands for None (line 48
                  \* never leaves an empty list)
    idx,          \* position of the fetch loop in the categories to query
    collected,    \* local collected
    lastFetch,    \* outcome of the most recent fetch_rss call
    anyRaised,    \* some fetch_rss call of this run raised
    anyReturned,  \* some fetch_rss call of this run returned
    deduped,      \* local deduped
    excluded,     \* local unique as computed at line 101 (history-excluded)
    unique,       \* local unique after the safety valve, then after the shuffle
    yield,        \* how many candidates dedupe kept, and how many of them the
                  \* history does not hold (kept for the whole run)
    enriched,     \* local results while and after the enrichment loop
    rankin,       \* local results after the category filter (the ranker's input)
    ranked,       \* local results after sorted()
    final,        \* local final
    briefing,     \* local briefing: <<>> before line 164, then <<the dict>>
    loads,        \* calls of load_memory made by the run
    saves,        \* calls of save_memory made by the run, load_memory's included
    calls,        \* the fetch_rss calls of the run: their category and num
    categorizer,  \* <<the (title, snippet) the last enrichment turn handed to
                  \* categorize_article>>, <<>> when it did not call it
    bare,         \* no record fetched so far came with a category key
    fpA, fpB,     \* two articles handed to fingerprint_article
    fpOut,        \* <<>> before the calls, then the pair of their fingerprints
    run,          \* two generate_briefing calls on one memory.json: for each its
                  \* position, top_n, local mem, local final and returned briefing
    saved,        \* the calls of run in the order of their save_memory
    memop,        \* one update_preferences or add_feedback call: its position,
                  \* its arguments and its local mem
    stale         \* the calls of run that had loaded and not yet saved when
                  \* memop saved

vars == <<store, USE_MOCK, pc, error, top_n, categories, mem, cats, idx,
          collected, lastFetch, anyRaised, anyReturned, deduped, excluded,
          unique, yield, enriched, rankin, ranked, final, briefing, loads,
          saves, calls, categorizer, bare, fpA, fpB, fpOut, run, saved, memop,
          stale>>

pipeVars == <<store, USE_MOCK, pc, error, top_n, categories, mem, cats, idx,
              collected, lastFetch, anyRaised, anyReturned, deduped, excluded,
              unique, yield, enriched, rankin, ranked, final, briefing, loads,
              saves, calls, categorizer, bare>>

fpVars == <<fpA, fpB, fpOut>>

memVars == <<run, saved, memop, stale>>

\* the locals of the one generate_briefing call followed step by step
callVars == <<USE_MOCK, pc, error, top_n, categories, mem, cats, idx,
              collected, lastFetch, anyRaised, anyReturned, deduped, excluded,
              unique, yield, enriched, rankin, ranked, final, briefing, loads,
              saves, calls, categorizer, bare>>

-----------------------------------------------------------------------------
(* Bounds of the model. *)

\* largest top_n a caller passes
MaxTopN == 4
\* most article records the fetch collaborator returns in one run, all calls together
MaxPool == 2
\* longest title or url handed to fingerprint_article on its own
MaxStrLen == 2

-----------------------------------------------------------------------------
(* Python values and helpers. *)

NoError == "NoError"
\* a record of the fetch collaborator that carries no "category" key
NoCat == "NoCat"

Min(a, b) == IF a <= b THEN a ELSE b
Max(a, b) == IF a >= b THEN a ELSE b

Range(s) == {s[i] : i \in 1..Len(s)}

\* all sequences over S of length at most n
SeqsUpTo(S, n) == UNION {[1..k -> S] : k \in 0..n}

\* s[:n + 1], a slice one item too long
SliceWrong(s, n) == SubSeq(s, 1, Min(Max(n, 0) + 1, Len(s)))
\* Python's s[:n]
Slice(s, n) ==
    IF n >= 0 THEN SubSeq(s, 1, Min(n, Len(s)))
    ELSE SubSeq(s, 1, Max(0, Len(s) + n))

\* Python's int(x) of the float n * 0.6: truncation towards zero
IntOfTimes06(n) ==
    IF n >= 0 THEN (n * 6) \div 10 ELSE 0 - (((0 - n) * 6) \div 10)

\* ceil(0.6 * n), the threshold as the design text words it
CeilOfTimes06(n) ==
    IF n >= 0 THEN (n * 6 + 9) \div 10 ELSE 0 - (((0 - n) * 6) \div 10)

\* the threshold rounded up, and the threshold without its floor of 1
ThresholdCeil(n) == Max(1, CeilOfTimes06(n))
ThresholdNoFloor(n) == IntOfTimes06(n)
\* max(1, int(top_n * 0.6)), the yield threshold of both safety valves
Threshold(n) == Max(1, IntOfTimes06(n))

-----------------------------------------------------------------------------
(* app/utils.py *)

\* fingerprint_article: sha256 of title + "|" + url. The digest is taken as
\* injective, so the fingerprint is the string that is hashed.
fingerprint_article(item) == item.title \o <<"|">> \o item.url

-----------------------------------------------------------------------------
(* app/tools/rss_fetcher.py and app/categorizer_agent.py: the category lists *)

\* the keys of RSS_FEEDS in the order the dict literal gives them
RSS_FEEDS ==
    <<"tech", "world", "business", "sports", "health", "entertainment",
      "science", "india">>

\* categorizer_agent.CATEGORIES
CATEGORIES ==
    <<"tech", "business", "world", "sports", "science", "health",
      "entertainment", "india">>

\* the characters of each supported category key
Spelling ==
    [business      |-> <<"b", "u", "s", "i", "n", "e", "s", "s">>,
     entertainment |-> <<"e", "n", "t", "e", "r", "t", "a", "i", "n", "m", "e", "n", "t">>,
     health        |-> <<"h", "e", "a", "l", "t", "h">>,
     india         |-> <<"i", "n", "d", "i", "a">>,
     science       |-> <<"s", "c", "i", "e", "n", "c", "e">>,
     sports        |-> <<"s", "p", "o", "r", "t", "s">>,
     tech          |-> <<"t", "e", "c", "h">>,
     world         |-> <<"w", "o", "r", "l", "d">>]

UpperLetters ==
    <<"A", "B", "C", "D", "E", "F", "G", "H", "I", "J", "K", "L", "M",
      "N", "O", "P", "Q", "R", "S", "T", "U", "V", "W", "X", "Y", "Z">>
LowerLetters ==
    <<"a", "b", "c", "d", "e", "f", "g", "h", "i", "j", "k", "l", "m",
      "n", "o", "p", "q", "r", "s", "t", "u", "v", "w", "x", "y", "z">>

\* the place of a lower-case letter in the alphabet, the order of its code point
Ord(ch) == CHOOSE i \in 1..Len(LowerLetters) : LowerLetters[i] = ch

\* Python's < on two strings of lower-case letters
RECURSIVE StrLess(_, _)
StrLess(a, b) ==
    IF a = <<>> THEN b # <<>>
    ELSE IF b = <<>> THEN FALSE
    ELSE IF Head(a) = Head(b) THEN StrLess(Tail(a), Tail(b))
    ELSE Ord(Head(a)) < Ord(Head(b))

\* sorted() on a list of distinct keys: each key goes to the place after the
\* keys smaller than it
SortedKeys(keys) ==
    [i \in 1..Len(keys) |->
        CHOOSE k \in Range(keys) :
            Cardinality({j \in Range(keys) : StrLess(Spelling[j], Spelling[k])}) = i - 1]

\* sorted(list(RSS_FEEDS.keys()))
SUPPORTED_CATEGORIES == SortedKeys(RSS_FEEDS)

\* str.lower() on one character
LowerChar(ch) ==
    IF \E i \in 1..Len(UpperLetters) : UpperLetters[i] = ch
    THEN LowerLetters[CHOOSE i \in 1..Len(UpperLetters) : UpperLetters[i] = ch]
    ELSE ch

\* str.lower()
Lower(s) == [i \in 1..Len(s) |-> LowerChar(s[i])]

IsSpace(ch) == ch \in {" ", "\t", "\n"}

\* str.strip()
RECURSIVE LStrip(_)
LStrip(s) == IF s # <<>> /\ IsSpace(Head(s)) THEN LStrip(Tail(s)) ELSE s
RECURSIVE RStrip(_)
RStrip(s) ==
    IF s # <<>> /\ IsSpace(s[Len(s)]) THEN RStrip(SubSeq(s, 1, Len(s) - 1)) ELSE s
Strip(s) == RStrip(LStrip(s))

IsSupported(chars) == \E l \in Range(SUPPORTED_CATEGORIES) : Spelling[l] = chars
LabelOf(chars) == CHOOSE l \in Range(SUPPORTED_CATEGORIES) : Spelling[l] = chars

-----------------------------------------------------------------------------
(* app/coordinator.py: the stages of generate_briefing as functions *)

\* a normalisation that lower-cases and does not trim
NormalizeUntrimmed(arg) ==
    IF arg = <<>> \/ arg[1] = <<>> THEN <<>>
    ELSE LET given == SelectSeq(arg[1], LAMBDA c : c # <<>>)
             lowered == [i \in 1..Len(given) |-> Lower(given[i])]
             kept == SelectSeq(lowered, IsSupported)
         IN  [i \in 1..Len(kept) |-> LabelOf(kept[i])]
\* lines 40-51: normalize categories (case-insensitive, filter to supported)
NormalizeCategories(arg) ==
    IF arg = <<>> \/ arg[1] = <<>> THEN <<>>
    ELSE LET given == SelectSeq(arg[1], LAMBDA c : c # <<>>)
             lowered == [i \in 1..Len(given) |-> Lower(Strip(given[i]))]
             kept == SelectSeq(lowered, IsSupported)
         IN  [i \in 1..Len(kept) |-> LabelOf(kept[i])]

\* SUPPORTED_CATEGORIES[:5]
SampleSize == 5
\* a sample taken from the keys as the dict gives them
SampleCatsUnsorted == Slice(RSS_FEEDS, SampleSize)
SampleCats == Slice(SUPPORTED_CATEGORIES, SampleSize)

\* the categories the fetch loop walks (lines 57-78)
ToQuery(cs) == IF cs # <<>> THEN cs ELSE SampleCats

\* a num that is never below top_n
FetchNumAtLeastTopN(cs, n) ==
    IF cs # <<>> THEN Max(n, 5) ELSE Max(n, Max(3, n \div 2))
\* the num argument of fetch_rss (lines 61 and 73); // is floor division
FetchNum(cs, n) == IF cs # <<>> THEN Max(n, 5) ELSE Max(3, n \div 2)

\* no tagging at all
TagNothing(arts, c) == arts
\* a.setdefault("category", c) over the returned list
Tag(arts, c) ==
    [i \in 1..Len(arts) |->
        IF arts[i].category = NoCat THEN [arts[i] EXCEPT !.category = c]
        ELSE arts[i]]

\* an except branch that also empties collected
CollectAfterDropsAll(coll, c, outcome) ==
    IF outcome.raised THEN <<>> ELSE coll \o Tag(outcome.arts, c)
\* one turn of the fetch loop: outcome.raised when fetch_rss raised
CollectAfter(coll, c, outcome) ==
    IF outcome.raised THEN coll ELSE coll \o Tag(outcome.arts, c)

\* lines 87-98: dedupe by fingerprint, first occurrence kept
RECURSIVE DedupeFrom(_, _)
DedupeFrom(s, seen) ==
    IF s = <<>> THEN <<>>
    ELSE LET fp == fingerprint_article(Head(s))
         IN  IF fp = <<>> \/ fp \in seen THEN DedupeFrom(Tail(s), seen)
             ELSE <<[Head(s) EXCEPT !.fingerprint = fp]>>
                      \o DedupeFrom(Tail(s), seen \cup {fp})

\* a dedupe that keeps the last occurrence
RECURSIVE DedupeKeepLast(_)
DedupeKeepLast(s) ==
    IF s = <<>> THEN <<>>
    ELSE LET fp == fingerprint_article(Head(s))
             rest == DedupeKeepLast(Tail(s))
         IN  IF \E i \in 1..Len(rest) : rest[i].fingerprint = fp THEN rest
             ELSE <<[Head(s) EXCEPT !.fingerprint = fp]>> \o rest
Dedupe(s) == DedupeFrom(s, {})

\* no history exclusion at all
ExcludeNothing(dd, last_fps) == dd
\* line 101
ExcludeHistory(dd, last_fps) ==
    SelectSeq(dd, LAMBDA u : u.fingerprint \notin Range(last_fps))

\* lines 103-104
SafetyValve(dd, ex, n) == IF Len(ex) < Threshold(n) THEN dd ELSE ex

\* random.shuffle: any reordering
Shuffles(s) ==
    {[i \in 1..Len(s) |-> s[p[i]]] :
        p \in {q \in [1..Len(s) -> 1..Len(s)] :
                 \A i, j \in 1..Len(s) : q[i] = q[j] => i = j}}

\* lines 112-142: the dict appended to results for article a
EnrichedItem(a, category, summ) ==
    [title       |-> a.title,
     snippet     |-> IF a.snippet # <<>> THEN a.snippet ELSE a.title,
     url         |-> a.url,
     category    |-> category,
     summary     |-> summ.summary,
     confidence  |-> summ.confidence,
     fingerprint |-> a.fingerprint]

\* a category filter without its safety valve
CategoryFilterAlways(results, cs, n) ==
    IF cs # <<>> THEN SelectSeq(results, LAMBDA r : r.category \in Range(cs))
    ELSE results
\* lines 146-150
CategoryFilter(results, cs, n) ==
    IF cs # <<>>
    THEN LET filtered == SelectSeq(results, LAMBDA r : r.category \in Range(cs))
         IN  IF Len(filtered) >= Threshold(n) THEN filtered ELSE results
    ELSE results

\* the sort key of lines 155-158, compared as Python compares tuples
NotPreferred(r, prefs) == r.category \notin Range(prefs)
KeyLess(x, y, prefs) ==
    \/ ~NotPreferred(x, prefs) /\ NotPreferred(y, prefs)
    \/ /\ NotPreferred(x, prefs) = NotPreferred(y, prefs)
       /\ 0 - x.confidence < 0 - y.confidence

\* a sort that puts an element in front of the elements of equal key
RECURSIVE SortedUnstable(_, _)
SortedUnstable(s, prefs) ==
    IF s = <<>> THEN <<>>
    ELSE LET init == SortedUnstable(SubSeq(s, 1, Len(s) - 1), prefs)
             x == s[Len(s)]
             k == Cardinality({i \in 1..Len(init) : KeyLess(init[i], x, prefs)})
         IN  SubSeq(init, 1, k) \o <<x>> \o SubSeq(init, k + 1, Len(init))
\* sorted(results, key=...): a stable sort. Each element goes behind the
\* elements sorted so far whose key is not larger than its own.
RECURSIVE Sorted(_, _)
Sorted(s, prefs) ==
    IF s = <<>> THEN <<>>
    ELSE LET init == Sorted(SubSeq(s, 1, Len(s) - 1), prefs)
             x == s[Len(s)]
             k == Cardinality({i \in 1..Len(init) : ~KeyLess(x, init[i], prefs)})
         IN  SubSeq(init, 1, k) \o <<x>> \o SubSeq(init, k + 1, Len(init))

-----------------------------------------------------------------------------
(* app/summarizer_agent.py: what call_gemini_summarize returns *)

\* method_conf_map["lexrank"], the extractive confidence at a compression
\* ratio of one half
ExtractiveConf == 65
\* the confidence when the generative rewrite was used
GenConf == 88
\* the confidence of the except branch of call_gemini_summarize
FallbackConf == 40

SummarizerResults ==
    {[summary |-> "extractive", confidence |-> ExtractiveConf],
     [summary |-> "rewritten",  confidence |-> GenConf],
     [summary |-> "fallback",   confidence |-> FallbackConf]}

-----------------------------------------------------------------------------
(* app/memory/memory_bank.py *)

\* DEFAULT: preferences, no last_briefing, no feedback
DEFAULT ==
    [categories |-> <<"tech", "business">>, has_last |-> FALSE,
     last_items |-> <<>>, feedback |-> <<>>]

\* load_memory: the file after the call (a missing file is seeded with DEFAULT)
StoreAfterLoad(st) == IF st = <<>> THEN <<DEFAULT>> ELSE st

\* lines 34-35 of coordinator.py
PreferredCategories(m) == m.categories
LastFps(m) == IF m.has_last THEN m.last_items ELSE <<>>

\* a write-back of a new document that holds the preferences and last_briefing
WithLastBriefingOnly(m, items) ==
    [m EXCEPT !.has_last = TRUE,
              !.last_items = [i \in 1..Len(items) |-> items[i].fingerprint],
              !.feedback = <<>>]
\* a write-back that adds the new fingerprints to the ones already stored
WithLastBriefingAppended(m, items) ==
    [m EXCEPT !.has_last = TRUE,
              !.last_items = LastFps(m) \o [i \in 1..Len(items) |-> items[i].fingerprint]]
\* lines 185-188 of coordinator.py: mem with last_briefing replaced
WithLastBriefing(m, items) ==
    [m EXCEPT !.has_last = TRUE,
              !.last_items = [i \in 1..Len(items) |-> items[i].fingerprint]]

\* update_preferences between its load_memory and its save_memory; an
\* argument left out is <<>>, one given is <<value>>
UpdatePreferences(m, add_category, remove_category, set_categories) ==
    LET given == IF set_categories # <<>> THEN set_categories[1] ELSE m.categories
        added == IF add_category # <<>> /\ add_category[1] \notin Range(given)
                 THEN Append(given, add_category[1]) ELSE given
        left  == IF remove_category # <<>>
                 THEN SelectSeq(added, LAMBDA c : c # remove_category[1]) ELSE added
    IN  [m EXCEPT !.categories = left]

\* add_feedback between its load_memory and its save_memory
AddFeedback(m, fingerprint, score) ==
    [m EXCEPT !.feedback = Append(@, [fp |-> fingerprint, score |-> score])]

-----------------------------------------------------------------------------
(* The inputs the environment supplies. *)

Titles == {<<"a">>, <<"b">>}
Urls == {<<"u">>}

\* what the fetch collaborator may return: records with no category key (as
\* rss_fetcher._parse_feed builds them), with an empty one (and an empty
\* snippet), with one of their own
FeedRecords ==
    {r \in [title : Titles, url : Urls, snippet : {<<>>, <<"s">>},
            category : {NoCat, "", "sports"}, fingerprint : {<<>>}] :
        \/ r.category = NoCat /\ r.snippet = <<"s">>
        \/ r.title = <<"a">> /\ r.category = "sports" /\ r.snippet = <<"s">>
        \/ r.title = <<"b">> /\ r.category = "" /\ r.snippet = <<>>}

Fingerprints == {fingerprint_article(r) : r \in FeedRecords}

\* last_briefing.items of an earlier run: fingerprints, none twice
\* the fingerprints in one fixed order
FingerprintList ==
    CHOOSE l \in [1..Cardinality(Fingerprints) -> Fingerprints] : Range(l) = Fingerprints

\* last_briefing.items of an earlier run: the sublists of FingerprintList
Histories ==
    {h \in SeqsUpTo(Fingerprints, Cardinality(Fingerprints)) :
        \E pos \in [1..Len(h) -> 1..Len(FingerprintList)] :
            /\ \A i \in 1..Len(h) : h[i] = FingerprintList[pos[i]]
            /\ \A i, j \in 1..Len(h) : i < j => pos[i] < pos[j]}

\* memory.json before the run: missing, or left by an earlier run
InitialStores ==
    {<<>>} \cup
    {<<[categories |-> DEFAULT.categories, has_last |-> TRUE, last_items |-> h,
        feedback |-> <<>>]>> : h \in Histories} \cup
    {<<[categories |-> <<"sports">>, has_last |-> TRUE, last_items |-> <<>>,
        feedback |-> <<>>]>>}

\* the top_n argument: the two invalid values next to 1, the small 1 and 2,
\* and the largest
TopNs == {0 - 1, 0, 1, 2, MaxTopN}

\* the categories argument: None, [], [" Tech"], ["tech", "TECH "], ["bogus"]
Requests ==
    { <<>>,
      << <<>> >>,
      << << <<" ", "T", "e", "c", "h">> >> >>,
      << << <<"t", "e", "c", "h">>, <<"T", "E", "C", "H", " ">> >> >>,
      << << <<"b", "o", "g", "u", "s">> >> >> }

-----------------------------------------------------------------------------
(* generate_briefing. A local that no later line reads is emptied by the   *)
(* step after its last use, so that runs which differ only in values       *)
(* nothing can observe any more are one state.                             *)

NoFetch == [raised |-> FALSE, arts |-> <<>>, cat |-> ""]
LoadError == "LoadError"
SaveError == "SaveError"
NoYield == [deduped |-> 0, fresh |-> 0]
IdleArticle ==
    [title |-> <<>>, url |-> <<>>, snippet |-> <<>>, image |-> <<>>,
     published |-> <<>>]

FpIdle == fpA = IdleArticle /\ fpB = IdleArticle /\ fpOut = <<>>

PipeIdle ==
    /\ pc = "idle"
    /\ error = NoError
    /\ top_n = 0
    /\ categories = <<>>
    /\ mem = <<>>
    /\ cats = <<>>
    /\ idx = 0
    /\ collected = <<>>
    /\ lastFetch = NoFetch
    /\ anyRaised = FALSE
    /\ anyReturned = FALSE
    /\ deduped = <<>>
    /\ excluded = <<>>
    /\ unique = <<>>
    /\ yield = NoYield
    /\ enriched = <<>>
    /\ rankin = <<>>
    /\ ranked = <<>>
    /\ final = <<>>
    /\ briefing = <<>>
    /\ loads = 0
    /\ saves = 0
    /\ calls = <<>>
    /\ categorizer = <<>>
    /\ bare = TRUE

\* the two concurrent generate_briefing calls
Runs == {1, 2}

NoRun == [pc |-> "idle", top_n |-> 0, mem |-> <<>>, final |-> <<>>, briefing |-> <<>>]
NoOp ==
    [kind |-> "none", add_category |-> <<>>, remove_category |-> <<>>,
     set_categories |-> <<>>, fingerprint |-> <<>>, score |-> 0]

MemIdle ==
    /\ run = [r \in Runs |-> NoRun]
    /\ saved = <<>>
    /\ memop = [pc |-> "idle", op |-> NoOp, mem |-> <<>>]
    /\ stale = {}

\* the categorizer without its mock is run on a fresh installation only
Init ==
    /\ store \in InitialStores
    /\ USE_MOCK \in BOOLEAN
    /\ ~USE_MOCK => store = <<>>
    /\ PipeIdle
    /\ FpIdle
    /\ MemIdle

\* lines 28-51: the call, load_memory, the normalisation
Call(n, arg) ==
    /\ pc = "idle"
    /\ top_n' = n
    /\ categories' = arg
    /\ store' = StoreAfterLoad(store)
    /\ mem' = store'
    /\ cats' = NormalizeCategories(arg)
    /\ idx' = 1
    /\ pc' = "fetch"
    /\ loads' = loads + 1
    /\ saves' = IF store = <<>> THEN saves + 1 ELSE saves
    /\ UNCHANGED <<USE_MOCK, error, collected, lastFetch, anyRaised, anyReturned,
                   deduped, excluded, unique, yield, enriched, rankin, ranked,
                   final, briefing, calls, categorizer, bare, fpVars, memVars>>

\* a load failure that is swallowed: the run goes on with DEFAULT
LoadFailsSwallowed(n, arg) ==
    /\ pc = "idle"
    /\ top_n' = n
    /\ categories' = arg
    /\ loads' = loads + 1
    /\ mem' = <<DEFAULT>>
    /\ cats' = NormalizeCategories(arg)
    /\ idx' = 1
    /\ pc' = "fetch"
    /\ error' = LoadError
    /\ UNCHANGED <<store, USE_MOCK, collected, lastFetch, anyRaised, anyReturned,
                   deduped, excluded, unique, yield, enriched, rankin, ranked,
                   final, briefing, saves, calls, categorizer, bare, fpVars,
                   memVars>>
\* line 33 when load_memory raises (memory.json cannot be opened or parsed):
\* nothing catches the exception
LoadFails(n, arg) ==
    /\ pc = "idle"
    /\ top_n' = n
    /\ categories' = arg
    /\ loads' = loads + 1
    /\ pc' = "aborted"
    /\ error' = LoadError
    /\ UNCHANGED <<store, USE_MOCK, mem, cats, idx, collected, lastFetch,
                   anyRaised, anyReturned, deduped, excluded, unique, yield,
                   enriched, rankin, ranked, final, briefing, saves, calls,
                   categorizer, bare, fpVars, memVars>>

\* lines 57-78: one turn of the fetch loop
Fetch(outcome) ==
    /\ pc = "fetch"
    /\ LET c == ToQuery(cats)[idx]
       IN  /\ collected' = CollectAfter(collected, c, outcome)
           /\ lastFetch' = [outcome EXCEPT !.cat = c]
           /\ calls' = Append(calls, [cat |-> c, num |-> FetchNum(cats, top_n)])
    /\ anyRaised' = (anyRaised \/ outcome.raised)
    /\ anyReturned' = (anyReturned \/ ~outcome.raised)
    /\ bare' = (bare /\ \A i \in 1..Len(outcome.arts) :
                             outcome.arts[i].category = NoCat)
    /\ IF idx < Len(ToQuery(cats))
       THEN idx' = idx + 1 /\ pc' = "fetch"
       ELSE idx' = idx /\ pc' = "dedupe"
    /\ categories' = <<>>
    /\ UNCHANGED <<store, USE_MOCK, error, top_n, mem, cats, deduped,
                   excluded, unique, yield, enriched, rankin, ranked, final,
                   briefing, loads, saves, categorizer, fpVars, memVars>>

\* fetch_rss returns at most num records
FetchReturns ==
    \E arts \in SeqsUpTo(FeedRecords,
                         Min(Max(FetchNum(cats, top_n), 0), MaxPool - Len(collected))) :
        Fetch([raised |-> FALSE, arts |-> arts, cat |-> ""])

\* fetch_rss raises
FetchRaises == Fetch([raised |-> TRUE, arts |-> <<>>, cat |-> ""])

\* lines 87-104: dedupe, history exclusion, safety valve
DedupeStep ==
    /\ pc = "dedupe"
    /\ deduped' = Dedupe(collected)
    /\ excluded' = ExcludeHistory(deduped', LastFps(mem[1]))
    /\ unique' = SafetyValve(deduped', excluded', top_n)
    /\ yield' =
         [deduped |-> Len(deduped'),
          fresh   |-> Cardinality({i \in 1..Len(deduped') :
                         deduped'[i].fingerprint \notin Range(LastFps(mem[1]))})]
    /\ pc' = "shuffle"
    /\ lastFetch' = NoFetch
    /\ UNCHANGED <<store, USE_MOCK, error, top_n, categories, mem, cats, idx,
                   collected, anyRaised, anyReturned, enriched, rankin,
                   ranked, final, briefing, loads, saves, calls, categorizer,
                   bare, fpVars, memVars>>

\* line 107
ShuffleStep ==
    /\ pc = "shuffle"
    /\ unique' \in Shuffles(unique)
    /\ pc' = "enrich"
    /\ collected' = <<>> /\ deduped' = <<>> /\ excluded' = <<>>
    /\ UNCHANGED <<store, USE_MOCK, error, top_n, categories, mem, cats, idx,
                   lastFetch, anyRaised, anyReturned, yield,
                   enriched, rankin, ranked, final, briefing, loads, saves,
                   calls, categorizer, bare, fpVars, memVars>>

\* categorize_article: the labels it may return for (title, snippet); no
\* title or snippet of the model holds one of its keywords, so the label is
\* random.choice(CATEGORIES). With USE_MOCK off it raises.
CategorizerLabels(title, snippet) == Range(CATEGORIES)

\* a resolution that always asks the categorizer
AlwaysCategorizer(a) == TRUE
\* line 117: prefer feed-level category
NeedsCategorizer(a) == a.category = "" \/ a.category = NoCat

\* lines 111-142: one turn of the enrichment loop
EnrichItem ==
    /\ pc = "enrich"
    /\ Len(enriched) < Len(unique)
    /\ LET a == unique[Len(enriched) + 1]
           title == a.title
           snippet == IF a.snippet # <<>> THEN a.snippet ELSE a.title
       IN  /\ categorizer' = IF NeedsCategorizer(a)
                             THEN <<[title |-> title, snippet |-> snippet]>>
                             ELSE <<>>
           /\ IF NeedsCategorizer(a) /\ ~USE_MOCK
              THEN /\ pc' = "aborted"
                   /\ error' = "NotImplementedError"
                   /\ UNCHANGED enriched
              ELSE /\ \E category \in (IF NeedsCategorizer(a)
                                       THEN CategorizerLabels(title, snippet)
                                       ELSE {a.category}),
                         summ \in SummarizerResults :
                           enriched' = Append(enriched, EnrichedItem(a, category, summ))
                   /\ UNCHANGED <<pc, error>>
    /\ UNCHANGED <<store, USE_MOCK, top_n, categories, mem, cats, idx, collected,
                   lastFetch, anyRaised, anyReturned, deduped, excluded, unique,
                   yield, rankin, ranked, final, briefing, loads, saves, calls,
                   bare, fpVars, memVars>>

\* lines 144-182: category filter, sort, trim, the briefing dict
ComposeStep ==
    /\ pc = "enrich"
    /\ Len(enriched) = Len(unique)
    /\ rankin' = CategoryFilter(enriched, cats, top_n)
    /\ ranked' = Sorted(rankin', PreferredCategories(mem[1]))
    /\ final' = Slice(ranked', top_n)
    /\ briefing' = <<[items |-> final', selected_categories |-> cats]>>
    /\ pc' = "save"
    /\ categorizer' = <<>>
    /\ UNCHANGED <<store, USE_MOCK, error, top_n, categories, mem, cats, idx,
                   collected, lastFetch, anyRaised, anyReturned, deduped, excluded,
                   unique, yield, enriched, loads, saves, calls, bare, fpVars, memVars>>

\* lines 184-191: save_memory, return
SaveStep ==
    /\ pc = "save"
    /\ store' = <<WithLastBriefing(mem[1], final)>>
    /\ pc' = "done"
    /\ unique' = <<>> /\ enriched' = <<>>
    /\ saves' = saves + 1
    /\ UNCHANGED <<USE_MOCK, error, top_n, categories, mem, cats, idx, collected,
                   lastFetch, anyRaised, anyReturned, deduped, excluded, yield,
                   rankin, ranked, final, briefing, loads, calls, categorizer,
                   bare, fpVars, memVars>>

\* line 189 when save_memory raises (memory.json cannot be opened for
\* writing): nothing catches the exception, line 191 is not reached
SaveFails ==
    /\ pc = "save"
    /\ saves' = saves + 1
    /\ pc' = "aborted"
    /\ error' = SaveError
    /\ unique' = <<>> /\ enriched' = <<>>
    /\ rankin' = <<>> /\ ranked' = <<>> /\ final' = <<>> /\ briefing' = <<>>
    /\ yield' = NoYield
    /\ UNCHANGED <<store, USE_MOCK, top_n, categories, mem, cats, idx, collected,
                   lastFetch, anyRaised, anyReturned, deduped, excluded, loads,
                   calls, categorizer, bare, fpVars, memVars>>

Next ==
    \/ \E n \in TopNs, arg \in Requests : Call(n, arg)
    \/ \E n \in TopNs, arg \in Requests : LoadFails(n, arg)
    \/ FetchReturns
    \/ FetchRaises
    \/ DedupeStep
    \/ ShuffleStep
    \/ EnrichItem
    \/ ComposeStep
    \/ SaveStep
    \/ SaveFails

Spec == Init /\ [][Next]_vars

-----------------------------------------------------------------------------
(* fingerprint_article on its own: two articles over a small alphabet *)

FpAlphabet == {"a", "|"}
FpStrings == SeqsUpTo(FpAlphabet, MaxStrLen)

\* the fields fingerprint_article does not read
Cosmetics ==
    {[snippet |-> <<>>,    image |-> <<>>,    published |-> <<>>],
     [snippet |-> <<"s">>, image |-> <<>>,    published |-> <<>>],
     [snippet |-> <<>>,    image |-> <<"i">>, published |-> <<>>],
     [snippet |-> <<>>,    image |-> <<>>,    published |-> <<"p">>]}

Article(t, u, c) ==
    [title |-> t, url |-> u, snippet |-> c.snippet, image |-> c.image,
     published |-> c.published]

InitFP ==
    /\ store = <<>>
    /\ USE_MOCK = TRUE
    /\ PipeIdle
    /\ MemIdle
    /\ fpOut = <<>>
    /\ \E t \in FpStrings, u \in FpStrings :
          fpA = Article(t, u, CHOOSE c \in Cosmetics : c.snippet = <<>> /\ c.image = <<>>
                                                        /\ c.published = <<>>)
    /\ \E t \in FpStrings, u \in FpStrings, c \in Cosmetics : fpB = Article(t, u, c)

FingerprintBoth ==
    /\ fpOut = <<>>
    /\ fpOut' = <<fingerprint_article(fpA), fingerprint_article(fpB)>>
    /\ UNCHANGED <<pipeVars, fpA, fpB, memVars>>

NextFP == FingerprintBoth

SpecFP == InitFP /\ [][NextFP]_vars

-----------------------------------------------------------------------------
(* Calls that share memory.json: two generate_briefing calls and one       *)
(* update_preferences or add_feedback call, interleaved at load_memory and *)
(* save_memory. Lines 37-182 of generate_briefing touch no shared state    *)
(* and are one step here.                                                  *)

\* the records one fetch_rss call of the shipped fetcher may return
BareRecords == {r \in FeedRecords : r.category = NoCat}

\* lines 109-142 over a whole pool, every item with its own category
Enrichments(u) ==
    {[i \in 1..Len(u) |-> EnrichedItem(u[i], u[i].category, f[i])] :
        f \in [1..Len(u) -> SummarizerResults]}

\* lines 87-162 with no requested categories: the final lists a call can
\* reach from the candidate pool and the document it loaded
Finals(pool, m, n) ==
    LET dd == Dedupe(pool)
        pools == Shuffles(SafetyValve(dd, ExcludeHistory(dd, LastFps(m)), n))
    IN  {Slice(Sorted(CategoryFilter(results, <<>>, n), PreferredCategories(m)), n) :
            results \in UNION {Enrichments(u) : u \in pools}}

\* the arguments of the update_preferences and add_feedback calls
MemOps ==
    {[NoOp EXCEPT !.kind = "update_preferences", !.add_category = <<"sports">>],
     [NoOp EXCEPT !.kind = "update_preferences", !.remove_category = <<"tech">>],
     [NoOp EXCEPT !.kind = "add_feedback", !.fingerprint = <<"a", "|", "u">>,
                  !.score = 1]}

\* what the call writes back
Applied(op, m) ==
    IF op.kind = "add_feedback" THEN AddFeedback(m, op.fingerprint, op.score)
    ELSE UpdatePreferences(m, op.add_category, op.remove_category, op.set_categories)

\* memory.json before the calls: missing, or left by a run that returned one
\* item
MemStores == {st \in InitialStores : st = <<>> \/ Len(st[1].last_items) = 1}

InitMem ==
    /\ store \in MemStores
    /\ USE_MOCK = TRUE
    /\ PipeIdle
    /\ FpIdle
    /\ MemIdle

\* line 33 of call r
RunLoads(r, n) ==
    /\ run[r].pc = "idle"
    /\ store' = StoreAfterLoad(store)
    /\ run' = [run EXCEPT ![r] = [@ EXCEPT !.pc = "loaded", !.top_n = n,
                                           !.mem = store']]
    /\ UNCHANGED <<callVars, fpVars, saved, memop, stale>>

\* lines 37-182 of call r, its one fetch_rss call that returns records made
\* under the first category of the default sample
RunComposes(r) ==
    /\ run[r].pc = "loaded"
    /\ \E arts \in SeqsUpTo(BareRecords, MaxPool) :
          \E f \in Finals(Tag(arts, SampleCats[1]), run[r].mem[1], run[r].top_n) :
             run' = [run EXCEPT ![r] =
                        [@ EXCEPT !.pc = "composed", !.final = f,
                                  !.briefing = <<[items |-> f,
                                                  selected_categories |-> <<>>]>>]]
    /\ UNCHANGED <<store, callVars, fpVars, saved, memop, stale>>

\* lines 185-191 of call r
RunSaves(r) ==
    /\ run[r].pc = "composed"
    /\ store' = <<WithLastBriefing(run[r].mem[1], run[r].final)>>
    /\ run' = [run EXCEPT ![r] = [@ EXCEPT !.pc = "done"]]
    /\ saved' = Append(saved, r)
    /\ UNCHANGED <<callVars, fpVars, memop, stale>>

\* load_memory of update_preferences (line 18) or add_feedback (line 34)
OpLoads(op) ==
    /\ memop.pc = "idle"
    /\ store' = StoreAfterLoad(store)
    /\ memop' = [pc |-> "loaded", op |-> op, mem |-> store']
    /\ UNCHANGED <<callVars, fpVars, run, saved, stale>>

\* save_memory of update_preferences (line 30) or add_feedback (line 38)
OpSaves ==
    /\ memop.pc = "loaded"
    /\ store' = <<Applied(memop.op, memop.mem[1])>>
    /\ memop' = [memop EXCEPT !.pc = "done"]
    /\ stale' = stale \cup {r \in Runs : run[r].pc \in {"loaded", "composed"}}
    /\ UNCHANGED <<callVars, fpVars, run, saved>>

\* the top_n of the two calls
RaceTopNs == {1, 2}

NextMem ==
    \/ \E r \in Runs, n \in RaceTopNs : RunLoads(r, n)
    \/ \E r \in Runs : RunComposes(r)
    \/ \E r \in Runs : RunSaves(r)
    \/ \E op \in MemOps : OpLoads(op)
    \/ OpSaves

SpecMem == InitMem /\ [][NextMem]_vars

-----------------------------------------------------------------------------
(* Properties of generate_briefing. *)

\* the run has fixed its output (lines 153-162 are behind it)
Ranked == pc \in {"save", "done"}

Prefs == PreferredCategories(mem[1])
History == Range(LastFps(mem[1]))
IsPreferred(r) == r.category \in Range(Prefs)
PosIn(s, x) == CHOOSE i \in 1..Len(s) : s[i] = x

\* x sorts before y: a preferred category first, then the higher confidence,
\* then the earlier place in the ranker's input
Before(x, y) ==
    \/ IsPreferred(x) /\ ~IsPreferred(y)
    \/ /\ IsPreferred(x) = IsPreferred(y)
       /\ \/ x.confidence > y.confidence
          \/ x.confidence = y.confidence /\ PosIn(rankin, x) < PosIn(rankin, y)

\* C1. Trim exactness: for a positive top_n and a ranker input of M items the
\* briefing holds exactly min(top_n, M) items, each of them one of the M
\* items and none of them twice.
C1_TrimExactness ==
    (Ranked /\ top_n >= 1) =>
        /\ Len(final) = Min(top_n, Len(rankin))
        /\ \A i \in 1..Len(final) : \E j \in 1..Len(rankin) : final[i] = rankin[j]
        /\ \A i, j \in 1..Len(final) : final[i] = final[j] => i = j
        /\ briefing[1].items = final

\* a run that trimmed: more items reached the ranker than top_n asks for
C1_Witness ==
    /\ pc = "done"
    /\ top_n >= 1
    /\ Len(rankin) > top_n
    /\ Len(final) = top_n

\* C2. Ranking: the briefing is the head of the stable sort of the ranker's
\* input, top_n items long for a positive top_n: preferred categories before
\* the others, within each group confidence non-increasing, equal keys in
\* the ranker's input order, and no item left out sorts before an item kept.
C2_Ranking ==
    Ranked =>
        /\ top_n >= 1 => Len(final) = Min(top_n, Len(rankin))
        /\ \A i \in 1..Len(final) : \E j \in 1..Len(rankin) : final[i] = rankin[j]
        /\ \A i, j \in 1..Len(final) :
              i < j =>
                /\ IsPreferred(final[j]) => IsPreferred(final[i])
                /\ IsPreferred(final[i]) = IsPreferred(final[j])
                      => final[i].confidence >= final[j].confidence
                /\ Before(final[i], final[j])
        /\ \A k \in 1..Len(rankin) :
              (\A i \in 1..Len(final) : final[i] # rankin[k])
                  => \A i \in 1..Len(final) : Before(final[i], rankin[k])

\* a run in which the sort moved a preferred item of lower confidence in
\* front of the item that led the ranker's input
C2_Witness ==
    /\ pc = "done"
    /\ top_n >= 1
    /\ Len(final) = 2
    /\ IsPreferred(final[1]) /\ ~IsPreferred(final[2])
    /\ final[1].confidence < final[2].confidence
    /\ rankin[1] = final[2]

\* the number of deduped candidates the history does not hold
FreshCount ==
    Cardinality({i \in 1..Len(deduped) : deduped[i].fingerprint \notin History})

\* the deduped candidates the history does not hold, in their order
FreshPool == SelectSeq(deduped, LAMBDA u : u.fingerprint \notin History)

\* C3, with the threshold ceil(0.6 * top_n). History safety valve: for a
\* positive top_n the working pool is
\* the full deduped pool exactly when fewer than ceil(0.6 * top_n) deduped
\* candidates are absent from the history, and the history-excluded pool
\* otherwise.
C3_ValveAtCeil ==
    (pc = "shuffle" /\ top_n >= 1) =>
        unique = IF FreshCount < CeilOfTimes06(top_n) THEN deduped ELSE FreshPool

\* C3, with the threshold of line 103, max(1, floor(0.6 * top_n)): the working
\* pool is the full deduped pool when fewer candidates than that are absent
\* from the history, and the history-excluded pool otherwise.
C3_ValveAtFloor ==
    (pc = "shuffle" /\ top_n >= 1) =>
        LET floor06 == (top_n * 6) \div 10
            threshold == IF floor06 >= 1 THEN floor06 ELSE 1
        IN  unique = IF FreshCount < threshold THEN deduped ELSE FreshPool

\* the history held one of two candidates, fewer than ceil(0.6 * top_n) were
\* fresh, and the exclusion stood
C3_Witness ==
    /\ pc = "shuffle"
    /\ top_n >= 1
    /\ FreshCount < CeilOfTimes06(top_n)
    /\ FreshCount < Len(deduped)
    /\ unique = FreshPool

\* the enriched items whose category was requested
Filtered == SelectSeq(enriched, LAMBDA r : r.category \in Range(cats))

\* C4, with the threshold ceil(0.6 * top_n). Category filter safety valve:
\* with explicit categories and a
\* positive top_n the ranker receives the filtered list exactly when it has
\* at least ceil(0.6 * top_n) items and the whole enriched list otherwise;
\* without explicit categories the enriched list reaches the ranker unfiltered.
C4_FilterAtCeil ==
    (pc = "save" /\ top_n >= 1) =>
        rankin = IF cats # <<>> /\ Len(Filtered) >= CeilOfTimes06(top_n)
                 THEN Filtered ELSE enriched

\* C4, with the threshold of line 148, max(1, floor(0.6 * top_n)).
C4_FilterAtFloor ==
    (pc = "save" /\ top_n >= 1) =>
        LET floor06 == (top_n * 6) \div 10
            threshold == IF floor06 >= 1 THEN floor06 ELSE 1
        IN  rankin = IF cats # <<>> /\ Len(Filtered) >= threshold
                     THEN Filtered ELSE enriched

\* explicit categories, one of two enriched items in a requested category,
\* fewer than ceil(0.6 * top_n), and the filter applied
C4_Witness ==
    /\ pc = "save"
    /\ top_n >= 1
    /\ cats # <<>>
    /\ Len(enriched) = 2
    /\ Len(Filtered) = 1
    /\ Len(Filtered) < CeilOfTimes06(top_n)
    /\ rankin = Filtered

\* the first place in the candidate pool of the fingerprint of its i-th item
FirstOf(i) ==
    CHOOSE k \in 1..Len(collected) :
        /\ fingerprint_article(collected[k]) = fingerprint_article(collected[i])
        /\ \A l \in 1..(k - 1) :
              fingerprint_article(collected[l]) # fingerprint_article(collected[i])

\* C5. Dedup: no two items of the deduped pool, of the working pool or of the
\* briefing share a fingerprint; every fingerprint of the candidate pool is
\* kept, as its first occurrence and in the pool's order; deduplicating the
\* deduped pool removes nothing.
C5_Dedup ==
    /\ pc = "shuffle" =>
        /\ \A i, j \in 1..Len(deduped) :
              deduped[i].fingerprint = deduped[j].fingerprint => i = j
        /\ \A i, j \in 1..Len(unique) :
              unique[i].fingerprint = unique[j].fingerprint => i = j
        /\ \A i \in 1..Len(collected) :
              \E k \in 1..Len(deduped) :
                  deduped[k] = [collected[FirstOf(i)] EXCEPT
                                   !.fingerprint = fingerprint_article(collected[i])]
        /\ \A k \in 1..Len(deduped) :
              \E i \in 1..Len(collected) :
                  /\ FirstOf(i) = i
                  /\ deduped[k] = [collected[i] EXCEPT !.fingerprint = deduped[k].fingerprint]
                  /\ \A k2 \in 1..(k - 1) :
                        \E i2 \in 1..(i - 1) :
                            deduped[k2] = [collected[i2] EXCEPT
                                              !.fingerprint = deduped[k2].fingerprint]
        /\ Dedupe(deduped) = deduped
    /\ Ranked =>
        \A i, j \in 1..Len(final) :
            final[i].fingerprint = final[j].fingerprint => i = j

\* the pool held the same story twice, as two different records
C5_Witness ==
    /\ pc = "shuffle"
    /\ Len(collected) = 2
    /\ Len(deduped) = 1
    /\ collected[1] # collected[2]

\* C6. For a positive top_n a non-empty candidate pool gives a non-empty
\* working pool, and when the history holds the fingerprint of every deduped
\* candidate the working pool has the size of the deduped pool.
C6_NeverEmpties ==
    (pc = "shuffle" /\ top_n >= 1) =>
        /\ collected # <<>> => unique # <<>>
        /\ (\A i \in 1..Len(deduped) : deduped[i].fingerprint \in History)
              => Len(unique) = Len(deduped)

\* the history held every candidate and the working pool kept them all
C6_Witness ==
    /\ pc = "shuffle"
    /\ top_n >= 1
    /\ Len(deduped) = 2
    /\ \A i \in 1..Len(deduped) : deduped[i].fingerprint \in History
    /\ Len(unique) = 2

\* C7. Cross-briefing suppression: in a run in which at least
\* ceil(0.6 * top_n) deduped candidates are absent from the history read at
\* the start, no item of the briefing has a fingerprint of that history.
C7_Suppression ==
    (Ranked /\ yield.fresh >= CeilOfTimes06(top_n)) =>
        \A i \in 1..Len(final) : final[i].fingerprint \notin History

\* C7 for the calls the entry point's contract admits, those with a positive
\* top_n.
C7_SuppressionPositiveTopN ==
    (Ranked /\ top_n >= 1 /\ yield.fresh >= CeilOfTimes06(top_n)) =>
        \A i \in 1..Len(final) : final[i].fingerprint \notin History

\* a returned briefing with an item, from a pool that held a story of the
\* previous briefing
C7_Witness ==
    /\ pc = "done"
    /\ top_n >= 1
    /\ yield.fresh >= CeilOfTimes06(top_n)
    /\ yield.fresh < yield.deduped
    /\ final # <<>>

\* an article as the fetch collaborator returned it, whatever its category
Core(a) == [title |-> a.title, url |-> a.url, snippet |-> a.snippet]
Cores(s) == [i \in 1..Len(s) |-> Core(s[i])]

\* C9. Fetch failure isolation: a fetch call that raises ends neither the
\* fetch loop nor the run and leaves the candidate pool as it was, a call
\* that returns adds exactly the articles it returned; the returned briefing
\* is well formed, and when every call raised no error but one of the
\* memory store ends the run, and its briefing has no items.
C9_FetchIsolation ==
    /\ [][pc = "fetch" =>
            /\ pc' \in {"fetch", "dedupe"}
            /\ error' = NoError
            /\ IF lastFetch'.raised
               THEN collected' = collected
               ELSE Cores(collected') = Cores(collected) \o Cores(lastFetch'.arts)]_vars
    /\ [](pc = "done" =>
            /\ error = NoError
            /\ Len(briefing) = 1
            /\ briefing[1].items = final
            /\ briefing[1].selected_categories = cats
            /\ ~anyReturned => briefing[1].items = <<>>)
    /\ []((~anyReturned /\ pc = "aborted") => error \in {LoadError, SaveError})

\* a run in which one fetch call raised after another had returned an
\* article, and which returned a briefing with an item
C9_Witness ==
    /\ pc = "done"
    /\ anyRaised
    /\ anyReturned
    /\ final # <<>>

\* C10. Enrichment keeps every item: whatever the categorizer and the
\* summarizer do on an item, no error but one of the memory store ends the
\* run, and the enriched list has the length of the working pool.
C10_EnrichmentKeepsAll ==
    /\ pc = "aborted" => error \in {LoadError, SaveError}
    /\ pc = "save" => Len(enriched) = Len(unique)

\* the fingerprints of the returned items, in briefing order
FinalFps == [i \in 1..Len(final) |-> final[i].fingerprint]

\* the run is between its load and its save
Running == pc \in {"fetch", "dedupe", "shuffle", "enrich", "save"}

\* C11, with one write per run. History write: a successful run has read the
\* store once, before any fetch call, and has written it once, after the
\* final list was fixed; the stored last_briefing.items is the list of
\* fingerprints of the returned items in briefing order, whatever it was
\* before.
C11_WrittenOnce ==
    /\ calls # <<>> => loads = 1
    /\ Running => loads = 1 /\ saves = 0
    /\ pc = "done" =>
          /\ loads = 1
          /\ saves = 1
          /\ briefing[1].items = final
          /\ store = <<[mem[1] EXCEPT !.has_last = TRUE, !.last_items = FinalFps]>>

\* C11, with the write of load_memory. The run reads the store once, before
\* any fetch call; save_memory is called by the last step of a successful
\* run, after the final list was fixed, and before that only by load_memory
\* when memory.json does not exist, which writes DEFAULT; no other step
\* changes the store, and after the run last_briefing.items is the list of
\* fingerprints of the returned items in briefing order.
C11_HistoryWrite ==
    /\ [](calls # <<>> => loads = 1)
    /\ [](Running => /\ loads = 1
                     /\ saves \in {0, 1}
                     /\ saves = 1 => mem = <<DEFAULT>>)
    /\ [][saves' # saves =>
            /\ saves' = saves + 1
            /\ \/ pc = "idle" /\ store = <<>> /\ store' = <<DEFAULT>>
               \/ /\ pc = "save"
                  /\ pc' = "done" => final' = final /\ briefing' = briefing]_vars
    /\ [][store' # store => saves' = saves + 1]_vars
    /\ [](pc = "done" =>
            /\ loads = 1
            /\ saves = (IF mem = <<DEFAULT>> THEN 2 ELSE 1)
            /\ briefing[1].items = final
            /\ store = <<[mem[1] EXCEPT !.has_last = TRUE, !.last_items = FinalFps]>>)

\* a run that found no memory.json has returned a briefing with an item: the
\* store was written by load_memory and by the final save
C11_Witness ==
    /\ pc = "done"
    /\ saves = 2
    /\ store[1].last_items # <<>>
    /\ store[1].last_items = FinalFps

\* the requested strings, none when the argument is None
Requested == IF categories = <<>> THEN <<>> ELSE categories[1]

\* the call has normalised its argument and has fetched nothing yet
Normalised == pc = "fetch" /\ calls = <<>>

\* C13. Category normalisation: the categories of the run are the requested
\* strings, trimmed and lower-cased, that spell a supported category, in the
\* order requested; when none remains the run is the run of a call with no
\* categories argument (it queries the default sample and filters nothing);
\* the briefing's selected_categories is the normalised list.
C13_Normalisation ==
    /\ Normalised =>
          LET kept == SelectSeq(Requested, LAMBDA c : IsSupported(Lower(Strip(c))))
          IN  /\ Len(cats) = Len(kept)
              /\ \A i \in 1..Len(kept) : Spelling[cats[i]] = Lower(Strip(kept[i]))
    /\ \A i \in 1..Len(calls) :
          calls[i].cat = (IF cats = <<>> THEN SUPPORTED_CATEGORIES[i] ELSE cats[i])
    /\ (cats = <<>> /\ pc \in {"dedupe", "shuffle", "enrich", "save", "done"})
          => Len(calls) = 5
    /\ (cats = <<>> /\ pc = "save") => rankin = enriched
    /\ pc \in {"save", "done"} => briefing[1].selected_categories = cats

\* the call was given [" Tech"] and runs with the category tech
C13_Witness ==
    /\ Normalised
    /\ Requested = << <<" ", "T", "e", "c", "h">> >>
    /\ cats = <<"tech">>

\* C14. Fetch once per category: when the fetch loop has ended, fetch_rss has
\* been called exactly once for each category to query, also when the
\* request names a category twice or in different letter case.
C14_FetchOncePerCategory ==
    pc = "dedupe" =>
        \A c \in Range(ToQuery(cats)) :
            Cardinality({i \in 1..Len(calls) : calls[i].cat = c}) = 1

C16_InvalidTopNRejected ==
    (pc # "idle" /\ top_n <= 0) =>
        /\ pc = "aborted"
        /\ calls = <<>>
        /\ saves = 0
        /\ briefing = <<>>

\* C17. Persistence failure is fatal: a run whose load_memory raised has
\* ended in that error with no document of its own, no fetch call, no save
\* and no briefing; a run whose final save_memory raised has ended in that
\* error without returning its briefing; a run that has ended in an error
\* takes no further step, and a run that returned met no error.
C17_PersistenceFatal ==
    /\ [](error = LoadError =>
            /\ pc = "aborted"
            /\ mem = <<>>
            /\ calls = <<>>
            /\ saves = 0
            /\ briefing = <<>>)
    /\ [](error = SaveError => pc = "aborted" /\ briefing = <<>>)
    /\ [][pc = "save" => (pc' = "done" /\ error' = NoError)
                           \/ (pc' = "aborted" /\ error' = SaveError
                                /\ store' = store)]_vars
    /\ [][pc = "aborted" => pc' = "aborted" /\ store' = store]_vars
    /\ [](pc = "done" => error = NoError)

\* the final save of a run that had fetched an article raised
C17_Witness ==
    /\ pc = "aborted"
    /\ error = SaveError
    /\ anyReturned
    /\ loads = 1
    /\ saves >= 1

\* C18. Category resolution: a fetched record without a category key gets
\* the category it was fetched under and a record with one keeps it; every
\* enriched item has a non-empty category, its article's own when that is
\* non-empty and otherwise a label of the categorizer, which is called with
\* the title and the snippet (the title when the snippet is empty), and
\* only for an article whose category is missing or empty.
C18_CategoryResolution ==
    /\ [][(pc = "fetch" /\ ~lastFetch'.raised) =>
            /\ Len(collected') = Len(collected) + Len(lastFetch'.arts)
            /\ \A i \in 1..Len(lastFetch'.arts) :
                  collected'[Len(collected) + i].category =
                      (IF lastFetch'.arts[i].category = NoCat
                       THEN lastFetch'.cat
                       ELSE lastFetch'.arts[i].category)]_vars
    /\ [][(pc = "enrich" /\ pc' # "save") =>
            LET a == unique[Len(enriched) + 1]
                own == a.category # "" /\ a.category # NoCat
            IN  /\ own => categorizer' = <<>>
                /\ ~own => categorizer' =
                              <<[title   |-> a.title,
                                 snippet |-> IF a.snippet = <<>> THEN a.title
                                             ELSE a.snippet]>>
                /\ enriched' # enriched =>
                      /\ enriched' = Append(enriched, enriched'[Len(enriched')])
                      /\ enriched'[Len(enriched')].category =
                            (IF own THEN a.category
                             ELSE enriched'[Len(enriched')].category)
                      /\ ~own => enriched'[Len(enriched')].category
                                    \in Range(CATEGORIES)]_vars
    /\ [](\A i \in 1..Len(enriched) :
              enriched[i].category # "" /\ enriched[i].category # NoCat)

\* the last enrichment turn met an article with an empty category and an
\* empty snippet: it called the categorizer with the title twice and kept
\* the label
C18_Witness ==
    /\ pc = "enrich"
    /\ enriched # <<>>
    /\ categorizer # <<>>
    /\ categorizer[1].snippet = categorizer[1].title
    /\ enriched[Len(enriched)].category = "world"

\* C20. With explicit categories and fetched records that carry no category
\* key, every enriched item's category is a requested one: the category
\* filter removes nothing and the ranker receives as many items as the
\* working pool holds, whatever top_n is.
C20_BareRecordsAllKept ==
    (pc = "save" /\ cats # <<>> /\ bare) =>
        /\ \A i \in 1..Len(enriched) : enriched[i].category \in Range(cats)
        /\ rankin = enriched
        /\ Len(rankin) = Len(unique)

\* one item of a requested category reached the ranker although the yield
\* threshold of top_n is above one
C20_Witness ==
    /\ pc = "save"
    /\ cats # <<>>
    /\ bare
    /\ Len(rankin) = 1
    /\ (top_n * 6) \div 10 > 1

\* C21. The default sample is fixed: a run with no explicit categories
\* queries business, entertainment, health, india and science, the first
\* five supported categories in alphabetical order, in that order and no
\* other category, whatever top_n, the stored preferences and the stored
\* last briefing are.
C21_DefaultSampleFixed ==
    (pc # "idle" /\ pc # "aborted" /\ cats = <<>>) =>
        LET five == <<"business", "entertainment", "health", "india", "science">>
        IN  /\ Len(calls) <= 5
            /\ \A i \in 1..Len(calls) : calls[i].cat = five[i]
            /\ pc = "fetch" => Len(calls) = idx - 1
            /\ pc # "fetch" => Len(calls) = 5

\* a default run with top_n = 2, on a store that prefers sports and holds
\* the last briefing of an earlier run, has ended its fetch loop
C21_Witness ==
    /\ pc = "dedupe"
    /\ cats = <<>>
    /\ top_n = 2
    /\ mem[1].categories = <<"sports">>
    /\ mem[1].has_last
    /\ Len(calls) = 5
    /\ calls[5].cat = "science"

-----------------------------------------------------------------------------
(* Properties of fingerprint_article. *)

\* C8. Identity determinism: two articles have the same fingerprint exactly
\* when they have the same title and the same url, whatever their snippet,
\* image and published fields.
C8_IdentityDeterminism ==
    fpOut # <<>> =>
        ((fpA.title = fpB.title /\ fpA.url = fpB.url) <=> fpOut[1] = fpOut[2])

-----------------------------------------------------------------------------
(* Properties of the calls that share memory.json. *)

\* the fingerprints of the briefing call r returned, in briefing order
RunFps(r) == [i \in 1..Len(run[r].final) |-> run[r].final[i].fingerprint]

\* C12. Last writer wins: once two generate_briefing calls on one
\* memory.json have both finished, however their loads and saves were
\* interleaved, the stored last_briefing.items is the fingerprint list of the
\* briefing of the call that saved last, and both calls have returned a
\* well-formed briefing.
C12_LastWriterWins ==
    ((\A r \in Runs : run[r].pc = "done") /\ memop.pc = "idle") =>
        /\ Len(saved) = 2 /\ saved[1] # saved[2]
        /\ store[1].has_last
        /\ store[1].last_items = RunFps(saved[2])
        /\ \A r \in Runs :
              /\ Len(run[r].briefing) = 1
              /\ run[r].briefing[1].items = run[r].final
              /\ run[r].briefing[1].selected_categories = <<>>
              /\ \A i \in 1..Len(run[r].final) : run[r].final[i].fingerprint # <<>>

\* both calls loaded the same document, so the second load came before the
\* first save, and they returned different briefings, neither of them the
\* one in the document they loaded
C12_Witness ==
    /\ \A r \in Runs : run[r].pc = "done"
    /\ memop.pc = "idle"
    /\ run[1].mem = run[2].mem
    /\ RunFps(1) # <<>> /\ RunFps(2) # <<>>
    /\ RunFps(1) # RunFps(2)
    /\ \A r \in Runs : RunFps(r) # LastFps(run[r].mem[1])

\* C19. Whole-document write-back: the document a generate_briefing call
\* saves is the document it loaded with only last_briefing replaced,
\* preferences and feedback as read; so what an update_preferences or
\* add_feedback call saved between the load and the save of the call is not
\* in the stored document after the call's save.
C19_WholeDocument ==
    [][\A r \in Runs :
          (run[r].pc = "composed" /\ run'[r].pc = "done") =>
              /\ store' = <<[run[r].mem[1] EXCEPT !.has_last = TRUE,
                                                  !.last_items = RunFps(r)]>>
              /\ store'[1].categories = run[r].mem[1].categories
              /\ store'[1].feedback = run[r].mem[1].feedback
              /\ r \in stale =>
                    LET written == Applied(memop.op, memop.mem[1])
                    IN  \/ store'[1].categories # written.categories
                        \/ store'[1].feedback # written.feedback]_vars

\* update_preferences(add_category="sports") saved while a call was between
\* its load and its save; the call saved last and the stored preferences do
\* not hold "sports"
C19_Witness ==
    /\ memop.pc = "done"
    /\ memop.op.add_category = <<"sports">>
    /\ saved # <<>>
    /\ saved[Len(saved)] \in stale
    /\ run[saved[Len(saved)]].pc = "done"
    /\ "sports" \notin Range(store[1].categories)

====
